---- MODULE Spec2Model ----
(***************************************************************************)
(* WordCrack: the candidate generator of realistic_wordlist.py, its web    *)
(* wrapper generate_web, and the Flask route of app.py that calls it.      *)
(*                                                                         *)
(* A Python str is a sequence of one-character strings; a Python list is a *)
(* sequence; a Python set is a set.  A dict is a function whose DOMAIN is  *)
(* its keys.  Values that Python tells apart by type (str, list, int,      *)
(* bool) carry the type in a record [t |-> ..., v |-> ...].                *)
(***************************************************************************)
EXTENDS Integers, Sequences, FiniteSets, TLC

(***************************************************************************)
(* Characters                                                              *)
(***************************************************************************)

\* The printable ASCII characters in code-point order, from 32 (space).  The
\* grave accent (96) cannot be written in a string here; its slot is empty.
Ascii ==
    << " ", "!", "\"", "#", "$", "%", "&", "'", "(", ")", "*", "+", ",", "-",
       ".", "/", "0", "1", "2", "3", "4", "5", "6", "7", "8", "9", ":", ";",
       "<", "=", ">", "?", "@", "A", "B", "C", "D", "E", "F", "G", "H", "I",
       "J", "K", "L", "M", "N", "O", "P", "Q", "R", "S", "T", "U", "V", "W",
       "X", "Y", "Z", "[", "\\", "]", "^", "_", "", "a", "b", "c", "d", "e",
       "f", "g", "h", "i", "j", "k", "l", "m", "n", "o", "p", "q", "r", "s",
       "t", "u", "v", "w", "x", "y", "z", "{", "|", "}", "~" >>

OrdTable ==
    [c \in {Ascii[i] : i \in 1..Len(Ascii)} |->
        31 + (CHOOSE i \in 1..Len(Ascii) : Ascii[i] = c)]

\* ord(c)
Ord(c) ==
    IF c = "\t" THEN 9 ELSE IF c = "\n" THEN 10 ELSE OrdTable[c]

\* chr(n) for a printable code point
Chr(n) ==
    Ascii[n - 31]

IsDigit(c) ==
    c \in {"0", "1", "2", "3", "4", "5", "6", "7", "8", "9"}

\* what the regex class \s matches
IsSpace(c) ==
    c \in {" ", "\t", "\n"}

IsUpperChar(c) ==
    Ord(c) >= 65 /\ Ord(c) <= 90

IsLowerChar(c) ==
    Ord(c) >= 97 /\ Ord(c) <= 122

\* str.lower() and str.upper() on one character
LowerChar(c) ==
    IF IsUpperChar(c) THEN Chr(Ord(c) + 32) ELSE c

UpperChar(c) ==
    IF IsLowerChar(c) THEN Chr(Ord(c) - 32) ELSE c

(***************************************************************************)
(* Strings and lists                                                       *)
(***************************************************************************)

Range(s) ==
    {s[i] : i \in 1..Len(s)}

Min(a, b) ==
    IF a < b THEN a ELSE b

Max(a, b) ==
    IF a > b THEN a ELSE b

Lower(s) ==
    [i \in 1..Len(s) |-> LowerChar(s[i])]

Upper(s) ==
    [i \in 1..Len(s) |-> UpperChar(s[i])]

\* str.capitalize(): first character upper-cased, the rest lower-cased
Capitalize(s) ==
    [i \in 1..Len(s) |-> IF i = 1 THEN UpperChar(s[i]) ELSE LowerChar(s[i])]

\* s[:k] for any integer k (a negative k counts from the end)
SliceTo(s, k) ==
    IF k >= 0 THEN SubSeq(s, 1, Min(k, Len(s)))
    ELSE SubSeq(s, 1, Max(Len(s) + k, 0))

\* s[-k:] for k > 0
LastN(s, k) ==
    SubSeq(s, Max(Len(s) - k, 0) + 1, Len(s))

\* str.strip(): leading and trailing whitespace removed
Strip(s) ==
    LET keep == {i \in 1..Len(s) : ~IsSpace(s[i])}
    IN  IF keep = {} THEN <<>>
        ELSE SubSeq(s, CHOOSE i \in keep : \A j \in keep : i <= j,
                       CHOOSE i \in keep : \A j \in keep : i >= j)

IsDigits(s) ==
    \A i \in 1..Len(s) : IsDigit(s[i])

\* str.isdigit(): non-empty and all digits
StrIsDigit(s) ==
    s # <<>> /\ IsDigits(s)

DigitVal(c) ==
    Ord(c) - 48

RECURSIVE ParseNat(_)
ParseNat(s) ==
    IF s = <<>> THEN 0
    ELSE 10 * ParseNat(SubSeq(s, 1, Len(s) - 1)) + DigitVal(s[Len(s)])

\* int(s) of a string of digits
Int_(s) ==
    ParseNat(s)

RECURSIVE NatStr(_)
NatStr(n) ==
    IF n < 10 THEN <<Chr(48 + n)>>
    ELSE NatStr(n \div 10) \o <<Chr(48 + (n % 10))>>

\* str(n)
Str_(n) ==
    IF n < 0 THEN <<"-">> \o NatStr(0 - n) ELSE NatStr(n)

\* f"{n}": the number without the zero padding.
FmtPlain(n) ==
    NatStr(n)

\* f"{n:02d}" for n >= 0
Fmt02d(n) ==
    IF n < 10 THEN <<"0">> \o NatStr(n) ELSE NatStr(n)

RECURSIVE Join(_)
\* ''.join(parts)
Join(parts) ==
    IF parts = <<>> THEN <<>> ELSE Head(parts) \o Join(Tail(parts))

(***************************************************************************)
(* Python values and dicts                                                 *)
(***************************************************************************)

PyStr(s) ==
    [t |-> "str", v |-> s]

PyList(l) ==
    [t |-> "list", v |-> l]

PyInt(n) ==
    [t |-> "int", v |-> n]

PyBool(b) ==
    [t |-> "bool", v |-> b]

None ==
    [t |-> "none", v |-> <<>>]

\* bool(x): None, "", [], 0 and False are falsy
Truthy(x) ==
    CASE x.t = "none" -> FALSE
      [] x.t = "int" -> x.v # 0
      [] x.t = "bool" -> x.v
      [] OTHER -> x.v # <<>>

\* d.get(k) and d.get(k, default)
Get(d, k) ==
    IF k \in DOMAIN d THEN d[k] ELSE None

GetOr(d, k, default) ==
    IF k \in DOMAIN d THEN d[k] ELSE default

EmptyDict ==
    [k \in {} |-> None]

\* d[k] = x
DictSet(d, k, x) ==
    [j \in DOMAIN d \cup {k} |-> IF j = k THEN x ELSE d[j]]

(***************************************************************************)
(* Iteration order of a set, and the random module                         *)
(*                                                                         *)
(* list(a_set) walks the set in hash order.  The hashes of strings are     *)
(* fixed when the interpreter starts (the hash seed h) and stay the same   *)
(* for the life of the process.  The order is modelled as the              *)
(* lexicographic order of the strings under a permutation of the           *)
(* characters that h selects.                                              *)
(***************************************************************************)

CharKey(c, h) ==
    (Ord(c) * (50 * h + 1)) % 131

StrLess(a, b, h) ==
    LET n == Min(Len(a), Len(b))
        diff == {i \in 1..n : a[i] # b[i]}
    IN  IF diff = {} THEN Len(a) < Len(b)
        ELSE LET i == CHOOSE i \in diff : \A j \in diff : i <= j
             IN  CharKey(a[i], h) < CharKey(b[i], h)

\* list(S) for a set of strings, under hash seed h.  (rank @@ <<>> is rank
\* and SubSeq(s, 1, Len(s)) is s; they make TLC compute each once.)
ListFromRank(S, rank) ==
    SubSeq([i \in 1..Cardinality(S) |-> CHOOSE x \in S : rank[x] = i - 1],
           1, Cardinality(S))

ListOf(S, h) ==
    ListFromRank(S, [x \in S |-> Cardinality({y \in S : StrLess(y, x, h)})] @@ <<>>)

\* The generator behind random: a 16-bit linear congruential stand-in for
\* the Mersenne Twister.  randbelow(n) steps the state to r' and returns
\* (r' \div 7) % n.
RngStep(r) ==
    (r * 75 + 74) % 65537

\* random.seed(a) that leaves the generator where it was.
SeedIgnored(r, a) ==
    r

\* The generator's state after random.seed(a) is called in state r.
RandomSeed(r, a) ==
    a % 65537

RECURSIVE RngStates(_, _)
\* The n states that follow r, in order (computed by halves).
RngStates(r, n) ==
    IF n <= 0 THEN <<>>
    ELSE IF n = 1 THEN <<RngStep(r)>>
    ELSE LET a == RngStates(r, n \div 2)
         IN  a \o RngStates(a[Len(a)], n - (n \div 2))

\* x[i], x[j] = x[j], x[i] with 0-based i and j
Swap(x, i, j) ==
    [x EXCEPT ![i + 1] = x[j + 1], ![j + 1] = x[i + 1]]

RECURSIVE ShuffleSteps(_, _, _, _)
\* Steps lo..hi of random.shuffle(x): step t swaps x[i] with x[j] for
\* i = len(x) - t and j = randbelow(i + 1), drawn from the t-th state in st.
\* (The steps are taken by halves, and the test on Len(y), which always
\* holds, has TLC finish the first half before it starts the second.)
ShuffleSteps(x, st, lo, hi) ==
    IF lo > hi THEN x
    ELSE IF lo = hi
    THEN Swap(x, Len(x) - lo, (st[lo] \div 7) % (Len(x) - lo + 1))
    ELSE LET y == ShuffleSteps(x, st, lo, (lo + hi) \div 2)
         IN  IF Len(y) = Len(x)
             THEN ShuffleSteps(y, st, ((lo + hi) \div 2) + 1, hi)
             ELSE y

\* random.shuffle(x): for i in reversed(range(1, len(x))):
\*     j = randbelow(i + 1); x[i], x[j] = x[j], x[i]
\* The result is <<the shuffled list, the generator's next state>>.
ShuffleWith(x, st) ==
    <<ShuffleSteps(x, st, 1, Len(x) - 1),
      IF st = <<>> THEN <<>> ELSE st[Len(st)]>>

Shuffle(x, r) ==
    IF Len(x) < 2 THEN <<x, r>>
    ELSE ShuffleWith(x, RngStates(r, Len(x) - 1))

(***************************************************************************)
(* realistic_wordlist.py: configuration                                    *)
(***************************************************************************)

WATERMARK ==
    <<"-", "-", "E", "D", "U">>

MAX_OUTPUT ==
    5000

MIN_LEN_DEFAULT ==
    6

MAX_LEN_DEFAULT ==
    16

COMMON_BLACKLIST ==
    { <<"1", "2", "3", "4", "5", "6">>,
      <<"p", "a", "s", "s", "w", "o", "r", "d">>,
      <<"q", "w", "e", "r", "t", "y">>,
      <<"a", "d", "m", "i", "n">>,
      <<"l", "e", "t", "m", "e", "i", "n">>,
      <<"w", "e", "l", "c", "o", "m", "e">>,
      <<"1", "2", "3", "4", "5", "6", "7", "8">>,
      <<"1", "2", "3", "4", "5", "6", "7", "8", "9">>,
      <<"1", "2", "3", "4", "5", "6", "7", "8", "9", "0">>,
      <<"a", "b", "c", "1", "2", "3">>,
      <<"p", "a", "s", "s", "w", "o", "r", "d", "1">> }

SEED ==
    42

(***************************************************************************)
(* Helpers                                                                 *)
(***************************************************************************)

\* re.sub(r'\s+', '', s).strip().lower() if s else ""
sanitize(s) ==
    IF s = <<>> THEN <<>>
    ELSE Lower(Strip(SelectSeq(s, LAMBDA c : ~IsSpace(c))))

skip_keys ==
    {"auth_phrase", "count", "min_len", "max_len", "include_specials",
     "include_uppercase", "extra_words", "important_years", "apps"}

\* The item loop without the test on skip_keys.
ItemTokensAllKeys(k, x) ==
    IF ~Truthy(x) THEN {}
    ELSE IF x.t = "str" THEN {sanitize(x.v)}
    ELSE IF x.t = "list"
         THEN {sanitize(x.v[i]) : i \in {j \in 1..Len(x.v) : x.v[j] # <<>>}}
    ELSE {}

\* The strings one dict item adds to the token set.
ItemTokens(k, x) ==
    IF k \in skip_keys \/ ~Truthy(x) THEN {}
    ELSE IF x.t = "str" THEN {sanitize(x.v)}
    ELSE IF x.t = "list"
         THEN {sanitize(x.v[i]) : i \in {j \in 1..Len(x.v) : x.v[j] # <<>>}}
    ELSE {}

\* The token set before it is listed.
TokenSet(data) ==
    LET fromItems == UNION {ItemTokens(k, data[k]) : k \in DOMAIN data}
        extra == Get(data, "extra_words")
        fromExtra == IF Truthy(extra)
                     THEN {sanitize(extra.v[i]) :
                              i \in {j \in 1..Len(extra.v) : extra.v[j] # <<>>}}
                     ELSE {}
    IN  fromItems \cup fromExtra

\* extract_tokens(data), listed under hash seed h
extract_tokens(data, h) ==
    ListOf({t \in TokenSet(data) : t # <<>>}, h)

\* A pattern that takes '-' as well as '/' between the groups.
DobLooseMatch(dob) ==
    /\ Len(dob) = 10
    /\ dob[3] \in {"/", "-"}
    /\ dob[6] \in {"/", "-"}
    /\ \A i \in {1, 2, 4, 5, 7, 8, 9, 10} : IsDigit(dob[i])

\* re.fullmatch(r'(\d{2})/(\d{2})/(\d{4})', dob)
DobFullmatch(dob) ==
    /\ Len(dob) = 10
    /\ dob[3] = "/"
    /\ dob[6] = "/"
    /\ \A i \in {1, 2, 4, 5, 7, 8, 9, 10} : IsDigit(dob[i])

\* parse_dob(dob): [ok |-> TRUE, val |-> the parts], or the ValueError raised
parse_dob(dob) ==
    IF ~DobFullmatch(dob)
    THEN [ok |-> FALSE, err |-> "DOB must be DD/MM/YYYY"]
    ELSE LET dd == SubSeq(dob, 1, 2)
             mm == SubSeq(dob, 4, 5)
             yyyy == SubSeq(dob, 7, 10)
         IN  [ok |-> TRUE,
              val |-> [dd |-> dd, mm |-> mm, yyyy |-> yyyy,
                       full |-> dd \o mm \o yyyy]]

\* The years set of get_years before it is listed.
YearSet(data) ==
    LET dob == Get(data, "dob")
        iy == Get(data, "important_years")
        fromDob == IF Truthy(dob) /\ parse_dob(dob.v).ok
                   THEN {parse_dob(dob.v).val.yyyy}
                   ELSE {}
        fromYears == IF Truthy(iy)
                     THEN {LastN(Strip(iy.v[i]), 4) :
                              i \in {j \in 1..Len(iy.v) : iy.v[j] # <<>>}}
                     ELSE {}
    IN  fromDob \cup fromYears

\* get_years(data), listed under hash seed h
get_years(data, h) ==
    ListOf(YearSet(data), h)

(***************************************************************************)
(* Transforms                                                              *)
(***************************************************************************)

AlternatingCase(token) ==
    [i \in 1..Len(token) |->
        IF (i - 1) % 2 = 0 THEN UpperChar(token[i]) ELSE LowerChar(token[i])]

case_variants(token, include_upper) ==
    <<Lower(token)>>
    \o (IF include_upper
        THEN <<Upper(token), Capitalize(token)>>
             \o (IF Len(token) > 1 THEN <<AlternatingCase(token)>> ELSE <<>>)
        ELSE <<>>)

\* str.maketrans({'a': '4', ...}): the keys of the table are code points
LeetTable ==
    (PyInt(Ord("a")) :> <<"4">>) @@ (PyInt(Ord("e")) :> <<"3">>)
    @@ (PyInt(Ord("i")) :> <<"1">>) @@ (PyInt(Ord("o")) :> <<"0">>)
    @@ (PyInt(Ord("s")) :> <<"5">>) @@ (PyInt(Ord("t")) :> <<"7">>)
    @@ (PyInt(Ord("g")) :> <<"9">>) @@ (PyInt(Ord("b")) :> <<"8">>)

\* table.get(key, default)
TableGet(table, key, default) ==
    IF key \in DOMAIN table THEN table[key] ELSE default

\* token.translate(table): each character is looked up by its code point
Translate(token, table) ==
    Join([i \in 1..Len(token) |->
            TableGet(table, PyInt(Ord(token[i])), <<token[i]>>)])

\* The substitute for the character c in the single-position loop:
\* table.get(c, c), with the character itself as the key.
LeetSubst(c) ==
    TableGet(LeetTable, PyStr(<<c>>), <<c>>)

LeetChars ==
    {"a", "e", "i", "o", "s", "t", "g", "b"}

leet_variants(token) ==
    LET hits == SelectSeq([i \in 1..Len(token) |-> i],
                          LAMBDA i : LowerChar(token[i]) \in LeetChars)
    IN  <<Translate(token, LeetTable)>>
        \o [k \in 1..Len(hits) |->
               SubSeq(token, 1, hits[k] - 1) \o LeetSubst(token[hits[k]])
               \o SubSeq(token, hits[k] + 1, Len(token))]

AppendSymbols ==
    <<"!", "@", "#", "$", "*">>

append_specials(base, include) ==
    IF ~include THEN <<>>
    ELSE [k \in 1..Len(AppendSymbols) |-> base \o <<AppendSymbols[k]>>]
         \o [k \in 1..Len(AppendSymbols) |-> <<AppendSymbols[k]>> \o base]

InsertSymbols ==
    <<"!", "@", "1", "2">>

insert_special(base, include) ==
    IF ~include \/ Len(base) < 2 THEN <<>>
    ELSE Join([k \in 1..Len(InsertSymbols) |->
                 [i \in 1..(Len(base) - 1) |->
                     SubSeq(base, 1, i) \o <<InsertSymbols[k]>>
                     \o SubSeq(base, i + 1, Len(base))]])

DefaultNumbers ==
    << <<"1">>, <<"2">>, <<"3">>, <<"1", "2", "3">>, <<"0", "0", "7">>,
       <<"6", "9">>, <<"4", "2", "0">>, <<"1", "2">>, <<"2", "1">> >>

numeric_suffixes(base, numbers) ==
    LET ns == numbers \o DefaultNumbers
    IN  Join([k \in 1..Len(ns) |-> <<base \o ns[k], ns[k] \o base>>])

date_variants(dob_parts) ==
    LET y == dob_parts.yyyy
    IN  << dob_parts.full,
           dob_parts.dd \o dob_parts.mm \o y,
           y,
           LastN(y, 2),
           Str_(Int_(y) - 1),
           Str_(Int_(y) + 1),
           dob_parts.dd \o <<"-">> \o dob_parts.mm \o <<"-">> \o y >>

(***************************************************************************)
(* generate_realistic: the stages                                          *)
(***************************************************************************)

\* add(w) without the upper bound on the length.
AdmitsNoMax(w, min_len, max_len) ==
    min_len <= Len(w) /\ w \notin COMMON_BLACKLIST

\* add(w) without the blacklist.
AdmitsNoBlacklist(w, min_len, max_len) ==
    min_len <= Len(w) /\ Len(w) <= max_len

\* The test of the inner function add(w).
Admits(w, min_len, max_len) ==
    min_len <= Len(w) /\ Len(w) <= max_len /\ w \notin COMMON_BLACKLIST

\* The candidate set after add(w) was called for every w in ws.
AddAll(cands, ws, min_len, max_len) ==
    cands \cup {w \o WATERMARK : w \in {x \in ws : Admits(x, min_len, max_len)}}

\* w[:-len(WATERMARK)]
Unmarked(w) ==
    SliceTo(w, 0 - Len(WATERMARK))

CASE_PREFIX ==
    300

LEET_PREFIX ==
    200

SPECIALS_PREFIX ==
    400

NUMERIC_PREFIX ==
    300

\* The members of list(cands)[:n], under hash seed h.
Prefix(cands, n, h) ==
    IF Cardinality(cands) <= n THEN cands
    ELSE Range(SubSeq(ListOf(cands, h), 1, n))

\* What generate_realistic derives from data before the first stage.
DobPartsOf(data) ==
    LET dob == Get(data, "dob")
    IN  IF Truthy(dob) /\ parse_dob(dob.v).ok THEN parse_dob(dob.v).val
        ELSE EmptyDict

PhoneNumbers(data) ==
    LET phone == sanitize(Get(data, "phone").v)
    IN  IF Truthy(Get(data, "phone")) /\ Len(phone) = 10 /\ IsDigits(phone)
        THEN <<LastN(phone, 4), phone>>
        ELSE <<>>

LuckyNumbers(data) ==
    IF Truthy(Get(data, "lucky_number"))
    THEN <<sanitize(Get(data, "lucky_number").v)>>
    ELSE <<>>

NumbersOf(data, h) ==
    get_years(data, h) \o LuckyNumbers(data) \o PhoneNumbers(data)

\* sanitize(data.get("full_name") or data.get("nickname") or "")
NameOf(data) ==
    sanitize(IF Truthy(Get(data, "full_name")) THEN Get(data, "full_name").v
             ELSE IF Truthy(Get(data, "nickname")) THEN Get(data, "nickname").v
             ELSE <<>>)

\* The strings the name-and-date loop passes to add.
DobSeeds(nm, parts) ==
    IF nm # <<>> /\ DOMAIN parts # {}
    THEN UNION {{nm \o date_variants(parts)[i], date_variants(parts)[i] \o nm} :
                   i \in 1..Len(date_variants(parts))}
    ELSE {}

\* The strings the name-and-lucky-number step passes to add.
LuckySeeds(nm, data) ==
    IF nm # <<>> /\ Truthy(Get(data, "lucky_number"))
    THEN LET n == sanitize(Get(data, "lucky_number").v) IN {nm \o n, n \o nm}
    ELSE {}

\* for a, b in itertools.combinations(tokens, 2): a+b, a.b, a_b
PairStrings(toks) ==
    UNION {{toks[i] \o toks[j],
            toks[i] \o <<".">> \o toks[j],
            toks[i] \o <<"_">> \o toks[j]} :
              <<i, j>> \in {p \in (1..Len(toks)) \X (1..Len(toks)) : p[1] < p[2]}}

CaseStrings(cands, h) ==
    UNION {Range(case_variants(Unmarked(w), TRUE)) :
              w \in Prefix(cands, CASE_PREFIX, h)}

LeetStrings(cands, h) ==
    UNION {Range(leet_variants(Unmarked(w))) : w \in Prefix(cands, LEET_PREFIX, h)}

SpecialStrings(cands, h) ==
    UNION {Range(append_specials(Unmarked(w), TRUE))
           \cup Range(insert_special(Unmarked(w), TRUE)) :
              w \in Prefix(cands, SPECIALS_PREFIX, h)}

NumericStrings(cands, numbers, h) ==
    UNION {Range(numeric_suffixes(Unmarked(w), numbers)) :
              w \in Prefix(cands, NUMERIC_PREFIX, h)}

\* The k-th smallest member of 1..n that is not in excl.
NthFree(k, n, excl) ==
    CHOOSE m \in (1..n) \ excl : Cardinality({x \in (1..m) \ excl : TRUE}) = k

\* itertools.permutations(toks, 2) and (toks, 3), each joined, in the order
\* itertools yields them (lexicographic in the positions).
Perms2(toks) ==
    LET n == Len(toks)
    IN  [m \in 1..(n * (n - 1)) |->
            LET i == ((m - 1) \div (n - 1)) + 1
                j == NthFree(((m - 1) % (n - 1)) + 1, n, {i})
            IN  toks[i] \o toks[j]]

Perms3(toks) ==
    LET n == Len(toks)
    IN  [m \in 1..(n * (n - 1) * (n - 2)) |->
            LET i == ((m - 1) \div ((n - 1) * (n - 2))) + 1
                rest == (m - 1) % ((n - 1) * (n - 2))
                j == NthFree((rest \div (n - 2)) + 1, n, {i})
                k == NthFree((rest % (n - 2)) + 1, n, {i, j})
            IN  toks[i] \o toks[j] \o toks[k]]

PermStrings(toks) ==
    Perms2(toks) \o Perms3(toks)

(***************************************************************************)
(* generate_web: validation and normalisation of the payload               *)
(***************************************************************************)

AUTH_PHRASE ==
    <<"I", "_", "H", "A", "V", "E", "_", "P", "E", "R", "M", "I", "S", "S",
      "I", "O", "N">>

RequiredFields ==
    <<"full_name", "dob", "phone", "email">>

RECURSIVE SplitOn(_, _)
\* re.split(r'[/-]', s) with seps = {"/", "-"}
SplitOn(s, seps) ==
    LET at == {i \in 1..Len(s) : s[i] \in seps}
    IN  IF at = {} THEN <<s>>
        ELSE LET i == CHOOSE i \in at : \A j \in at : i <= j
             IN  <<SubSeq(s, 1, i - 1)>> \o SplitOn(SubSeq(s, i + 1, Len(s)), seps)

\* Whether re.fullmatch(r"[^@]+@[^@]+\.[^@]+", s) would match.
EmailFullmatch(s) ==
    \E a \in 1..Len(s) :
        /\ s[a] = "@"
        /\ a > 1
        /\ \A i \in 1..Len(s) : i # a => s[i] # "@"
        /\ \E d \in (a + 2)..(Len(s) - 1) : s[d] = "."

\* Whether re.match(r"[^@]+@[^@]+\.[^@]+", s) matches: some prefix of s does.
EmailMatch(s) ==
    \E n \in 1..Len(s) : EmailFullmatch(SubSeq(s, 1, n))

\* The check of the e-mail: True when generate_web raises for it.
EmailRejected(email) ==
    "@" \in Range(email) /\ ~EmailMatch(email)

\* int(x) of an int, or of a string of digits with an optional sign, spaces
\* around it allowed: [ok |-> TRUE, val |-> n], or the ValueError.
IntOf(x) ==
    IF x.t = "int" THEN [ok |-> TRUE, val |-> x.v]
    ELSE IF x.t = "bool" THEN [ok |-> TRUE, val |-> IF x.v THEN 1 ELSE 0]
    ELSE LET z == Strip(x.v)
             neg == z # <<>> /\ z[1] = "-"
             body == IF z # <<>> /\ z[1] \in {"-", "+"} THEN Tail(z) ELSE z
         IN  IF StrIsDigit(body)
             THEN [ok |-> TRUE, val |-> IF neg THEN 0 - Int_(body) ELSE Int_(body)]
             ELSE [ok |-> FALSE, err |-> "invalid literal for int() with base 10"]

Raise(msg) ==
    [ok |-> FALSE, err |-> msg]

\* The first required field the payload lacks, or "" when it has them all.
MissingField(payload) ==
    LET lacking == {i \in 1..Len(RequiredFields) :
                       ~Truthy(Get(payload, RequiredFields[i]))}
    IN  IF lacking = {} THEN ""
        ELSE RequiredFields[CHOOSE i \in lacking : \A j \in lacking : i <= j]

\* The arguments generate_web passes on, once the payload is normalised.
WebArgs(payload) ==
    LET c == IntOf(GetOr(payload, "count", PyInt(500)))
        lo == IntOf(GetOr(payload, "min_len", PyInt(6)))
        hi == IntOf(GetOr(payload, "max_len", PyInt(16)))
    IN  IF ~c.ok THEN Raise(c.err)
        ELSE IF ~lo.ok THEN Raise(lo.err)
        ELSE IF ~hi.ok THEN Raise(hi.err)
        ELSE [ok |-> TRUE,
              payload |-> payload,
              args |-> [count |-> Max(1, Min(5000, c.val)),
                        min_len |-> Max(1, lo.val),
                        max_len |-> Min(50, hi.val),
                        include_specials |->
                            GetOr(payload, "include_specials", PyBool(TRUE)).v,
                        include_uppercase |->
                            GetOr(payload, "include_uppercase", PyBool(TRUE)).v]]

\* generate_web up to the call of generate_realistic: the ValueError raised,
\* or the normalised payload and the arguments of the call.
WebCheck(payload) ==
    IF Get(payload, "auth_phrase") # PyStr(AUTH_PHRASE)
    THEN Raise("Incorrect authorization phrase")
    ELSE IF MissingField(payload) # ""
    THEN Raise(MissingField(payload) \o " is required")
    ELSE
    LET dob == Strip(payload["dob"].v)
        parts == SplitOn(dob, {"/", "-"})
    IN  IF Len(parts) # 3 \/ ~(\A i \in 1..Len(parts) : StrIsDigit(parts[i]))
        THEN Raise("DOB must be in DD/MM/YYYY format")
        ELSE
        LET dd == Int_(parts[1])
            mm == Int_(parts[2])
            yyyy == Int_(parts[3])
        IN  IF ~(1 <= dd /\ dd <= 31 /\ 1 <= mm /\ mm <= 12
                 /\ 1900 <= yyyy /\ yyyy <= 2100)
            THEN Raise("Invalid date in DOB")
            ELSE
            LET p1 == DictSet(payload, "dob",
                              PyStr(Fmt02d(dd) \o <<"/">> \o Fmt02d(mm)
                                    \o <<"/">> \o Str_(yyyy)))
                phone == SelectSeq(payload["phone"].v, IsDigit)
            IN  IF Len(phone) # 10 THEN Raise("Phone must be 10 digits")
                ELSE
                LET p2 == DictSet(p1, "phone", PyStr(phone))
                    email == Strip(payload["email"].v)
                IN  IF EmailRejected(email) THEN Raise("Invalid email format")
                    ELSE WebArgs(DictSet(p2, "email", PyStr(email)))

(***************************************************************************)
(* The inputs explored                                                     *)
(***************************************************************************)

MaxHashSeed ==
    1

MaxRngStart ==
    1

MaxCalls ==
    2

DobSlash ==
    <<"1", "5", "/", "0", "6", "/", "1", "9", "9", "0">>

DobDash ==
    <<"1", "5", "-", "0", "6", "-", "1", "9", "9", "0">>

DobShort ==
    <<"5", "-", "6", "/", "1", "9", "9", "0">>

PhoneDigits ==
    <<"5", "5", "5", "1", "2", "3", "4", "5", "6", "7">>

PhonePretty ==
    <<"(", "5", "5", "5", ")", " ", "1", "2", "3", "-", "4", "5", "6", "7">>

\* Records handed straight to generate_realistic.
CoreData ==
    { ("full_name" :> PyStr(<<"A", "d">>))
        @@ ("extra_words" :> PyList(<< <<"M", "i", "n">> >>)),
      ("full_name" :> PyStr(<<"a", " ", "b">>))
        @@ ("pet" :> PyStr(<<"c", "d">>))
        @@ ("lucky_number" :> PyStr(<<"7">>)),
      ("full_name" :> PyStr(<<"J", "o">>))
        @@ ("dob" :> PyStr(DobSlash)),
      ("full_name" :> PyStr(<<"J", "o">>))
        @@ ("nickname" :> PyStr(<<"B", "o">>))
        @@ ("dob" :> PyStr(DobDash))
        @@ ("important_years" :> PyList(<< <<"2", "0", "0", "1", " ">> >>))
        @@ ("phone" :> PyStr(PhoneDigits)),
      ("full_name" :> PyStr(<<" ", " ">>))
        @@ ("important_years" :> PyList(<< <<"2", "0", "0", "1">> >>))
        @@ ("apps" :> PyList(<< <<"x">> >>))
        @@ ("extra_words" :> PyList(<< <<" ">>, <<>> >>))
        @@ ("count" :> PyInt(7)),
      ("full_name" :> PyStr(<<"a", "b">>)),
      ("full_name" :> PyStr(<<"x">>))
        @@ ("nickname" :> PyStr(<<"y">>))
        @@ ("email" :> PyStr(<<"z">>)),
      ("nickname" :> PyStr(<<"A", "l">>))
        @@ ("pets" :> PyList(<< <<"R", "e", "x">>, <<>>, <<"b">> >>)) }

Counts ==
    {-1, 0, 2, 1000, 6000}

Lengths ==
    {<<2, 3>>, <<4, 4>>}

CoreArgs ==
    {[count |-> c, min_len |-> 4, max_len |-> 5,
      include_specials |-> FALSE, include_uppercase |-> FALSE] : c \in Counts}
    \cup
    {[count |-> 1000, min_len |-> l[1], max_len |-> l[2],
      include_specials |-> sp, include_uppercase |-> up] :
        l \in Lengths, sp \in BOOLEAN, up \in BOOLEAN}
    \cup
    {[count |-> 1000, min_len |-> 5, max_len |-> 6,
      include_specials |-> FALSE, include_uppercase |-> FALSE]}

\* One call whose candidate set outgrows the prefixes the stages take.
LargeData ==
    ("full_name" :> PyStr(<<"a", " ", "b">>))
    @@ ("pet" :> PyStr(<<"c", "d">>))
    @@ ("lucky_number" :> PyStr(<<"7">>))

LargeArgs ==
    [count |-> 400, min_len |-> 5, max_len |-> 6,
     include_specials |-> TRUE, include_uppercase |-> TRUE]

CoreRequests ==
    (CoreData \X CoreArgs) \cup {<<LargeData, LargeArgs>>}

\* The defaults of generate_realistic's parameters.
DefaultArgs ==
    [count |-> 1000, min_len |-> MIN_LEN_DEFAULT, max_len |-> MAX_LEN_DEFAULT,
     include_specials |-> TRUE, include_uppercase |-> TRUE]

\* A payload the web wrapper accepts, and payloads that differ from it in
\* the fields a variation gives.
GoodPayload ==
    ("auth_phrase" :> PyStr(AUTH_PHRASE))
    @@ ("full_name" :> PyStr(<<"A", "l">>))
    @@ ("dob" :> PyStr(DobSlash))
    @@ ("phone" :> PyStr(PhoneDigits))
    @@ ("email" :> PyStr(<<"a", "@", "b", ".", "c">>))
    @@ ("min_len" :> PyInt(4))
    @@ ("max_len" :> PyInt(4))
    @@ ("include_specials" :> PyBool(FALSE))

Variations ==
    { ("auth_phrase" :> PyStr(<<"n", "o">>)),
      ("auth_phrase" :> None),
      ("full_name" :> PyStr(<<>>)),
      ("full_name" :> PyStr(<<" ">>)),
      ("dob" :> None),
      ("dob" :> PyStr(DobDash)),
      ("dob" :> PyStr(DobShort)),
      ("dob" :> PyStr(<<" ">> \o DobSlash \o <<" ">>)),
      ("dob" :> PyStr(<<"1", "5", ".", "0", "6", ".", "1", "9", "9", "0">>)),
      ("dob" :> PyStr(<<"1", "5", "/", "0", "6">>)),
      ("dob" :> PyStr(<<"3", "2", "/", "0", "6", "/", "1", "9", "9", "0">>)),
      ("dob" :> PyStr(<<"1", "5", "/", "1", "3", "/", "1", "9", "9", "0">>)),
      ("dob" :> PyStr(<<"1", "5", "/", "0", "6", "/", "9", "0">>)),
      ("dob" :> PyStr(<<"0", "1", "5", "/", "6", "/", "0", "2", "0", "0", "1">>)),
      ("phone" :> PyStr(<<>>)),
      ("phone" :> PyStr(PhonePretty)),
      ("phone" :> PyStr(SubSeq(PhoneDigits, 1, 9))),
      ("phone" :> PyStr(PhoneDigits \o <<"8">>)),
      ("email" :> None),
      ("email" :> PyStr(<<"f", "o", "o">>)),
      ("email" :> PyStr(<<"a", "@", "b">>)),
      ("email" :> PyStr(<<"@", "b", ".", "c">>)),
      ("email" :> PyStr(<<"a", "@", "b", ".", "c", "@", "d">>)),
      ("email" :> PyStr(<<" ", "x", "@", "y", ".", "z", " ">>)),
      ("count" :> PyInt(2)),
      ("count" :> PyInt(0)),
      ("count" :> PyStr(<<"3">>)),
      ("count" :> PyStr(<<"x">>)),
      ("min_len" :> PyInt(0)),
      ("min_len" :> PyInt(49)) @@ ("max_len" :> PyInt(60)),
      ("include_uppercase" :> PyBool(FALSE)) }

WebPayloads ==
    {GoodPayload} \cup {v @@ GoodPayload : v \in Variations}

(***************************************************************************)
(* State                                                                   *)
(***************************************************************************)

VARIABLES
    hashseed,    \* the interpreter's string-hash seed, fixed at start-up
    rng,         \* the state of the random module's global generator
    entry,       \* "core": generate_realistic is called; "web": the route is;
                 \* "leet": leet_variants alone is
    request,     \* the dict as the caller built it
    pc,          \* where the request is
    data,        \* the dict: the payload, or generate_realistic's data
    args,        \* count, min_len, max_len and the flags of the call
    calls,       \* calls of generate_realistic begun so far
    tokens,      \* generate_realistic's locals
    dob_parts,
    numbers,
    name,
    candidates,
    perms,
    remaining,
    offered,     \* how many members of perms the fallback loop has taken
    dob_seeds,   \* what the name-and-date loop passed to add in this call
    result,      \* what generate_realistic returned
    returns,     \* the results of the completed calls, in order
    err,         \* the message of the ValueError raised, or ""
    response,    \* the HTTP response of the route
    base,        \* the argument of a call of leet_variants alone
    variants     \* what that call yielded

vars ==
    <<hashseed, rng, entry, request, pc, data, args, calls, tokens, dob_parts,
      numbers, name, candidates, perms, remaining, offered, dob_seeds, result,
      returns, err, response, base, variants>>

\* What no step of a request changes.
env ==
    <<hashseed, entry, request>>

leet ==
    <<base, variants>>

locals ==
    <<tokens, dob_parts, numbers, name, candidates, perms, remaining, offered,
      dob_seeds>>

NoResponse ==
    [status |-> 0]

InitLocals ==
    /\ tokens = <<>>
    /\ dob_parts = EmptyDict
    /\ numbers = <<>>
    /\ name = <<>>
    /\ candidates = {}
    /\ perms = <<>>
    /\ remaining = 0
    /\ offered = 0
    /\ dob_seeds = {}

Init ==
    /\ hashseed \in 0..MaxHashSeed
    /\ rng \in 0..MaxRngStart
    /\ \/ entry = "core" /\ \E q \in CoreRequests : data = q[1] /\ args = q[2]
       \/ entry = "web" /\ data \in WebPayloads /\ args = DefaultArgs
    /\ request = data
    /\ pc = "start"
    /\ calls = 0
    /\ InitLocals
    /\ result = <<>>
    /\ returns = <<>>
    /\ err = ""
    /\ response = NoResponse
    /\ base = <<>>
    /\ variants = <<>>

(***************************************************************************)
(* generate_realistic, stage by stage                                      *)
(***************************************************************************)

Add(ws) ==
    AddAll(candidates, ws, args.min_len, args.max_len)

\* A direct call of generate_realistic(data, **args).
CoreCall ==
    /\ entry = "core"
    /\ pc = "start"
    /\ pc' = "enter"
    /\ UNCHANGED <<env, leet, rng, data, args, calls, locals, result,
                   returns, err, response>>

\* random.seed(SEED); candidates = set(); tokens = extract_tokens(data);
\* if not tokens: return []
Enter ==
    /\ pc = "enter"
    /\ calls' = calls + 1
    /\ rng' = RandomSeed(rng, SEED)
    /\ candidates' = {}
    /\ tokens' = extract_tokens(data, hashseed)
    /\ dob_parts' = EmptyDict
    /\ numbers' = <<>>
    /\ name' = <<>>
    /\ perms' = <<>>
    /\ remaining' = 0
    /\ offered' = 0
    /\ dob_seeds' = {}
    /\ IF tokens' = <<>>
       THEN result' = <<>> /\ pc' = "returned"
       ELSE result' = result /\ pc' = "facts"
    /\ UNCHANGED <<env, leet, data, args, returns, err, response>>

\* dob_parts, numbers and name
Facts ==
    /\ pc = "facts"
    /\ dob_parts' = DobPartsOf(data)
    /\ numbers' = NumbersOf(data, hashseed)
    /\ name' = NameOf(data)
    /\ pc' = "seeds"
    /\ UNCHANGED <<env, leet, rng, data, args, calls, tokens, candidates,
                   perms, remaining, offered, dob_seeds, result, returns, err,
                   response>>

\* name with each date variant, name with the lucky number
Seeds ==
    /\ pc = "seeds"
    /\ dob_seeds' = DobSeeds(name, dob_parts)
    /\ candidates' = Add(DobSeeds(name, dob_parts) \cup LuckySeeds(name, data))
    /\ pc' = "pairs"
    /\ UNCHANGED <<env, leet, rng, data, args, calls, tokens, dob_parts,
                   numbers, name, perms, remaining, offered, result, returns,
                   err, response>>

Pairs ==
    /\ pc = "pairs"
    /\ candidates' = Add(PairStrings(tokens))
    /\ pc' = "case"
    /\ UNCHANGED <<env, leet, rng, data, args, calls, tokens, dob_parts,
                   numbers, name, perms, remaining, offered, dob_seeds, result,
                   returns, err, response>>

CaseStage ==
    /\ pc = "case"
    /\ candidates' = IF args.include_uppercase
                     THEN Add(CaseStrings(candidates, hashseed))
                     ELSE candidates
    /\ pc' = "leet"
    /\ UNCHANGED <<env, leet, rng, data, args, calls, tokens, dob_parts,
                   numbers, name, perms, remaining, offered, dob_seeds, result,
                   returns, err, response>>

LeetStage ==
    /\ pc = "leet"
    /\ candidates' = Add(LeetStrings(candidates, hashseed))
    /\ pc' = "specials"
    /\ UNCHANGED <<env, leet, rng, data, args, calls, tokens, dob_parts,
                   numbers, name, perms, remaining, offered, dob_seeds, result,
                   returns, err, response>>

SpecialsStage ==
    /\ pc = "specials"
    /\ candidates' = IF args.include_specials
                     THEN Add(SpecialStrings(candidates, hashseed))
                     ELSE candidates
    /\ pc' = "numeric"
    /\ UNCHANGED <<env, leet, rng, data, args, calls, tokens, dob_parts,
                   numbers, name, perms, remaining, offered, dob_seeds, result,
                   returns, err, response>>

NumericStage ==
    /\ pc = "numeric"
    /\ candidates' = Add(NumericStrings(candidates, numbers, hashseed))
    /\ pc' = "fallback"
    /\ UNCHANGED <<env, leet, rng, data, args, calls, tokens, dob_parts,
                   numbers, name, perms, remaining, offered, dob_seeds, result,
                   returns, err, response>>

\* remaining = count - len(candidates); if remaining > 0: perms = ...;
\* random.shuffle(perms)
FallbackInit ==
    /\ pc = "fallback"
    /\ remaining' = args.count - Cardinality(candidates)
    /\ offered' = 0
    /\ IF remaining' > 0
       THEN /\ perms' = Shuffle(PermStrings(tokens), rng)[1]
            /\ rng' = Shuffle(PermStrings(tokens), rng)[2]
            /\ pc' = "loop"
       ELSE /\ perms' = perms
            /\ rng' = rng
            /\ pc' = "final"
    /\ UNCHANGED <<env, leet, data, args, calls, tokens, dob_parts,
                   numbers, name, candidates, dob_seeds, result, returns, err,
                   response>>

\* One turn of: for p in perms: if remaining <= 0: break; add(p);
\* remaining -= 1
Remaining(r) ==
    r - 1

FallbackStep ==
    /\ pc = "loop"
    /\ offered < Len(perms)
    /\ remaining > 0
    /\ candidates' = Add({perms[offered + 1]})
    /\ remaining' = Remaining(remaining)
    /\ offered' = offered + 1
    /\ UNCHANGED <<env, leet, rng, pc, data, args, calls, tokens,
                   dob_parts, numbers, name, perms, dob_seeds, result, returns,
                   err, response>>

\* The loop ends: perms is used up, or the break is taken.
FallbackExit ==
    /\ pc = "loop"
    /\ ~(offered < Len(perms) /\ remaining > 0)
    /\ pc' = "final"
    /\ UNCHANGED <<env, leet, rng, data, args, calls, locals, result,
                   returns, err, response>>

\* The return without the slice.
TruncateNone(final, count) ==
    final

\* final[:min(count, MAX_OUTPUT)]
Truncate(final, count) ==
    SliceTo(final, Min(count, MAX_OUTPUT))

\* final = list(candidates); random.shuffle(final); return final[:...]
Finalize ==
    /\ pc = "final"
    /\ result' = Truncate(Shuffle(ListOf(candidates, hashseed), rng)[1],
                          args.count)
    /\ rng' = Shuffle(ListOf(candidates, hashseed), rng)[2]
    /\ pc' = "returned"
    /\ UNCHANGED <<env, leet, data, args, calls, locals, returns, err,
                   response>>

\* The direct caller takes the result, and calls again with the same
\* arguments while it has calls left.
CoreReturn ==
    /\ entry = "core"
    /\ pc = "returned"
    /\ returns' = Append(returns, result)
    /\ pc' = IF calls < MaxCalls THEN "enter" ELSE "done"
    /\ UNCHANGED <<env, leet, rng, data, args, calls, locals, result,
                   err, response>>

(***************************************************************************)
(* app.py: the route /api/generate, and generate_web                       *)
(***************************************************************************)

\* generate(): result = realistic_wordlist.generate_web(data), up to the
\* call of generate_realistic or the ValueError.
WebCall ==
    /\ entry = "web"
    /\ pc = "start"
    /\ IF WebCheck(data).ok
       THEN /\ data' = WebCheck(data).payload
            /\ args' = WebCheck(data).args
            /\ err' = err
            /\ pc' = "enter"
       ELSE /\ data' = data
            /\ args' = args
            /\ err' = WebCheck(data).err
            /\ pc' = "raised"
    /\ UNCHANGED <<env, leet, rng, calls, locals, result, returns,
                   response>>

\* return {"lines": lines, "count": len(lines)}; return jsonify(result)
WebReturn ==
    /\ entry = "web"
    /\ pc = "returned"
    /\ response' = [status |-> 200, lines |-> result, count |-> Len(result)]
    /\ pc' = "done"
    /\ UNCHANGED <<env, leet, rng, data, args, calls, locals, result,
                   returns, err>>

\* except Exception as e: return jsonify({"error": str(e)}), 400
WebError ==
    /\ pc = "raised"
    /\ response' = [status |-> 400, error |-> err]
    /\ pc' = "done"
    /\ UNCHANGED <<env, leet, rng, data, args, calls, locals, result,
                   returns, err>>

Next ==
    \/ CoreCall
    \/ Enter
    \/ Facts
    \/ Seeds
    \/ Pairs
    \/ CaseStage
    \/ LeetStage
    \/ SpecialsStage
    \/ NumericStage
    \/ FallbackInit
    \/ FallbackStep
    \/ FallbackExit
    \/ Finalize
    \/ CoreReturn
    \/ WebCall
    \/ WebReturn
    \/ WebError

Spec ==
    Init /\ [][Next]_vars

(***************************************************************************)
(* leet_variants called on its own                                         *)
(***************************************************************************)

MaxBaseLen ==
    3

BaseChars ==
    {"a", "s", "x", "A", "1"}

RECURSIVE StringsUpTo(_, _)
StringsUpTo(chars, n) ==
    IF n = 0 THEN {<<>>}
    ELSE StringsUpTo(chars, n - 1)
         \cup {Append(s, c) : s \in StringsUpTo(chars, n - 1), c \in chars}

InitLeet ==
    /\ hashseed = 0
    /\ rng = 0
    /\ entry = "leet"
    /\ data = EmptyDict
    /\ args = DefaultArgs
    /\ request = data
    /\ pc = "start"
    /\ calls = 0
    /\ InitLocals
    /\ result = <<>>
    /\ returns = <<>>
    /\ err = ""
    /\ response = NoResponse
    /\ base \in StringsUpTo(BaseChars, MaxBaseLen)
    /\ variants = <<>>

\* list(leet_variants(base))
LeetCall ==
    /\ entry = "leet"
    /\ pc = "start"
    /\ variants' = leet_variants(base)
    /\ pc' = "done"
    /\ UNCHANGED <<env, rng, data, args, calls, locals, result, returns, err,
                   response, base>>

NextLeet ==
    LeetCall

SpecLeet ==
    InitLeet /\ [][NextLeet]_vars

(***************************************************************************)
(* Properties                                                              *)
(***************************************************************************)

\* Every string generate_realistic has handed back so far.
Returned ==
    Range(result) \cup UNION {Range(returns[i]) : i \in 1..Len(returns)}

EndsWithMarker(w) ==
    /\ Len(w) >= Len(WATERMARK)
    /\ SubSeq(w, Len(w) - Len(WATERMARK) + 1, Len(w)) = WATERMARK

\* The length of w without the marker.
UnmarkedLen(w) ==
    Len(w) - Len(WATERMARK)

\* s is two digits, a slash, two digits, a slash and four digits.
IsDDMMYYYY(s) ==
    /\ Len(s) = 10
    /\ \A i \in 1..10 : IF i \in {3, 6} THEN s[i] = "/" ELSE IsDigit(s[i])

\* The string in field k of d, or the empty string when d has none.
FieldStr(d, k) ==
    IF Get(d, k).t = "str" THEN Get(d, k).v ELSE <<>>

\* C1: every member of the candidate set, and every string returned, ends
\* with the marker "--EDU" and has, without the marker, a length between
\* min_len and max_len, whatever stage offered it.
C1_MarkedAndWithinLength ==
    \A w \in candidates \cup Returned :
        /\ EndsWithMarker(w)
        /\ args.min_len <= UnmarkedLen(w)
        /\ UnmarkedLen(w) <= args.max_len

\* A call returned strings although the pair stage offered a string longer
\* than max_len and the fallback loop offered one shorter than min_len.
C1_Witness ==
    /\ pc = "returned"
    /\ result # <<>>
    /\ \E x \in PairStrings(tokens) : Len(x) > args.max_len
    /\ \E k \in 1..offered : Len(perms[k]) < args.min_len

\* C2: no member of the candidate set and no string returned is, once the
\* marker is removed, an entry of COMMON_BLACKLIST.
C2_NoBlacklisted ==
    \A w \in candidates \cup Returned : Unmarked(w) \notin COMMON_BLACKLIST

\* A call returned strings after a stage offered a blacklisted string whose
\* length was within the bounds.
C2_Witness ==
    /\ pc = "returned"
    /\ result # <<>>
    /\ \E x \in PairStrings(tokens) \cup {perms[k] : k \in 1..offered} :
          /\ x \in COMMON_BLACKLIST
          /\ args.min_len <= Len(x)
          /\ Len(x) <= args.max_len

\* C3 as claimed: for every integer count, the number of strings returned
\* never exceeds min(count, 5000).
C3_AtMostCountAnyInteger ==
    pc = "returned" => Len(result) <= Min(args.count, MAX_OUTPUT)

\* C3 as amended: for every count >= 0, the number of strings returned
\* never exceeds min(count, 5000).
C3_AtMostCount ==
    (pc = "returned" /\ args.count >= 0)
        => Len(result) <= Min(args.count, MAX_OUTPUT)

\* The stages accumulated more than count > 0 candidates and the call
\* returned exactly count of them.
C3_Witness ==
    /\ pc = "returned"
    /\ args.count > 0
    /\ Cardinality(candidates) > args.count
    /\ Len(result) = args.count

\* C4: the invocations made with the same record and the same arguments
\* all return the same sequence, element for element.
C4_SameSequence ==
    \A i, j \in 1..Len(returns) : returns[i] = returns[j]

\* Two calls have returned, each at least three strings, after the
\* fallback shuffled its permutations and the final list was shuffled.
C4_Witness ==
    /\ Len(returns) >= 2
    /\ Len(returns[1]) >= 3
    /\ Len(perms) >= 2

\* The payload p passes the named checks of the web wrapper: authorization
\* phrase, required fields, DOB, phone.
C5_PassesOtherChecks(p) ==
    /\ Get(p, "auth_phrase") = PyStr(AUTH_PHRASE)
    /\ \A i \in 1..Len(RequiredFields) : Truthy(Get(p, RequiredFields[i]))
    /\ LET parts == SplitOn(Strip(FieldStr(p, "dob")), {"/", "-"})
       IN  /\ Len(parts) = 3
           /\ \A i \in 1..3 : StrIsDigit(parts[i])
           /\ Int_(parts[1]) \in 1..31
           /\ Int_(parts[2]) \in 1..12
           /\ Int_(parts[3]) \in 1900..2100
    /\ Len(SelectSeq(FieldStr(p, "phone"), IsDigit)) = 10

\* s has the shape local@domain.tld: one "@", something before it, and
\* after it a domain, a dot and a tld.
C5_EmailShape(s) ==
    /\ Cardinality({i \in 1..Len(s) : s[i] = "@"}) = 1
    /\ LET at == CHOOSE i \in 1..Len(s) : s[i] = "@"
       IN  /\ at > 1
           /\ \E d \in (at + 2)..(Len(s) - 1) : s[d] = "."

\* C5: a payload with a wrong authorization phrase, a missing required
\* field, a malformed DOB, a phone that is not 10 digits or an e-mail that
\* is not of the shape local@domain.tld never gets generate_realistic
\* invoked: the call is begun only for payloads that pass every check.
C5_InvalidNeverReachesCore ==
    (entry = "web" /\ calls > 0)
        => /\ C5_PassesOtherChecks(request)
           /\ C5_EmailShape(Strip(FieldStr(request, "email")))

\* C6: when data's dob does not fully match DD/MM/YYYY, a direct call of
\* generate_realistic raises nothing, derives no DOB parts, offers no
\* name-and-date seed to add, and builds the number pool that the record
\* without its dob would give.
C6_MalformedDobIgnored ==
    (entry = "core" /\ ~IsDDMMYYYY(FieldStr(data, "dob")))
        => /\ pc # "raised"
           /\ err = ""
           /\ DOMAIN dob_parts = {}
           /\ dob_seeds = {}
           /\ pc \notin {"start", "enter", "facts"} /\ tokens # <<>>
                 => numbers = NumbersOf([k \in DOMAIN data \ {"dob"} |-> data[k]],
                                        hashseed)

\* A direct call on a record with a named dob that is not DD/MM/YYYY has
\* returned strings, and its number pool is not empty.
C6_Witness ==
    /\ entry = "core"
    /\ pc = "returned"
    /\ FieldStr(data, "dob") # <<>>
    /\ ~IsDDMMYYYY(FieldStr(data, "dob"))
    /\ name # <<>>
    /\ numbers # <<>>
    /\ result # <<>>

\* The value x gives the token set nothing: it is absent, or a string or
\* list of strings that are empty once white space is removed.
C7_Blank(x) ==
    \/ x.t \in {"none", "int", "bool"}
    \/ x.t = "str" /\ \A i \in 1..Len(x.v) : IsSpace(x.v[i])
    \/ x.t = "list" /\ \A j \in 1..Len(x.v) :
                          \A i \in 1..Len(x.v[j]) : IsSpace(x.v[j][i])

\* No field of d outside the skipped ones, and no element of extra_words,
\* holds a token.
C7_NoToken(d) ==
    /\ \A k \in DOMAIN d \ skip_keys : C7_Blank(d[k])
    /\ C7_Blank(Get(d, "extra_words"))

\* C7: when the record holds no token, generate_realistic returns the
\* empty list and admits no candidate, whatever count, the bounds, the
\* flags and the skipped fields are.
C7_NoTokenReturnsEmpty ==
    (pc = "returned" /\ C7_NoToken(data))
        => /\ result = <<>>
           /\ candidates = {}

\* A call on a record without tokens, but with important_years, apps and a
\* positive count, has returned.
C7_Witness ==
    /\ pc = "returned"
    /\ calls = 1
    /\ C7_NoToken(data)
    /\ Truthy(Get(data, "important_years"))
    /\ Truthy(Get(data, "apps"))
    /\ args.count > 0

\* The map of the leet substitution.
C8_Map ==
    ("a" :> "4") @@ ("e" :> "3") @@ ("i" :> "1") @@ ("o" :> "0")
    @@ ("s" :> "5") @@ ("t" :> "7") @@ ("g" :> "9") @@ ("b" :> "8")

\* What C8 says leet_variants(b) yields.
C8_Expected(b) ==
    LET hits == SelectSeq([i \in 1..Len(b) |-> i],
                          LAMBDA i : b[i] \in DOMAIN C8_Map)
    IN  <<[i \in 1..Len(b) |->
              IF b[i] \in DOMAIN C8_Map THEN C8_Map[b[i]] ELSE b[i]]>>
        \o [k \in 1..Len(hits) |-> [b EXCEPT ![hits[k]] = C8_Map[b[hits[k]]]]]

\* C8: leet_variants(base) yields the fully substituted base first and
\* then, for each position holding a character of the map, the base with
\* that position alone substituted; other positions yield nothing.
C8_LeetAsSpecified ==
    (entry = "leet" /\ pc = "done") => variants = C8_Expected(base)

\* C9: when the permutation fallback's loop has ended, the candidate set
\* holds at least count members or every permutation has been offered.
C9_LoopEndsFullOrExhausted ==
    pc = "final"
        => \/ Cardinality(candidates) >= args.count
           \/ offered = Len(perms)

\* The positions of a request at which generate_realistic holds its
\* derived facts.
AfterFacts ==
    {"seeds", "pairs", "case", "leet", "specials", "numeric", "fallback",
     "loop", "final", "returned"}

\* C10: whenever the web wrapper has invoked generate_realistic, data's dob
\* is two digits, slash, two digits, slash, four digits and data's phone
\* is exactly 10 digits; the call then holds DOB parts, and its number pool
\* contains the phone and the phone's last 4 digits.
C10_AcceptedPayloadNormalised ==
    (entry = "web" /\ calls > 0)
        => /\ IsDDMMYYYY(FieldStr(data, "dob"))
           /\ Len(FieldStr(data, "phone")) = 10
           /\ \A i \in 1..Len(FieldStr(data, "phone")) :
                 IsDigit(FieldStr(data, "phone")[i])
           /\ pc \in AfterFacts
                 => /\ DOMAIN dob_parts # {}
                    /\ FieldStr(data, "phone") \in Range(numbers)
                    /\ LastN(FieldStr(data, "phone"), 4) \in Range(numbers)

\* The wrapper took a payload whose dob was written with '-' and without
\* zero padding, and whose call has returned.
C10_Witness ==
    /\ entry = "web"
    /\ pc = "returned"
    /\ "-" \in Range(FieldStr(request, "dob"))
    /\ Len(FieldStr(request, "dob")) < 10
    /\ result # <<>>

====
